---- MODULE Spec2Model ----
(***************************************************************************)
(* Model of lib/update.js (square): Update.prototype.execute and the       *)
(* fetchers it dispatches to.                                              *)
(*                                                                         *)
(* JavaScript runs every function to completion, so each action below is   *)
(* one synchronous run: execute up to the loop, the body `testing` of one  *)
(* iteration, or one collaborator callback together with everything it     *)
(* calls (test, done, the per-key callback of async.forEach, finished).    *)
(*                                                                         *)
(* Strings that the code inspects (the `latest` descriptor) are sequences  *)
(* of tokens; the regular expression githubRE and raw() work on tokens.    *)
(***************************************************************************)
EXTENDS Integers, Sequences, FiniteSets, TLC

\* ------------------------------------------------------------------ bounds
NumKeys == 2

Keys == 1..NumKeys
\* bundle.version as recorded in the manifest, and the commit hashes the GitHub
\* API can answer with
RecordedVersion == "sha-old"
Versions == {"sha-old", "sha-new"}
\* an undefined version or content (both are falsy, like the empty string)
Undefined == ""

\* ------------------------------------------------------------- descriptors
NoLatest == << >>
PlainUrl == <<"http://", "example.com", "/", "lib.js">>
SelectorUrl == <<"http://", "example.com", "/", "page", "#", "ver">>
GithubUrl == <<"https://", "github.com", "/", "acme", "/", "widgets", "/", "blob", "/", "main", "/", "a.js">>
GithubHashUrl == <<"https://", "github.com", "/", "acme", "/", "widgets", "/", "blob", "/", "main", "/", "a.js", "#", "L1">>
Descriptors == {NoLatest, PlainUrl, SelectorUrl, GithubUrl, GithubHashUrl}

\* [\w\.\-]+ on tokens: a token made of word characters, dots and dashes
IsWord(t) == t \notin {"/", "#", "http://", "https://"}

\* githubRE matches at token position p
GithubAt(d, p) ==
  /\ p + 9 <= Len(d)
  /\ d[p] = "github.com"
  /\ d[p + 1] = "/" /\ IsWord(d[p + 2])
  /\ d[p + 3] = "/" /\ IsWord(d[p + 4])
  /\ d[p + 5] = "/" /\ d[p + 6] = "blob"
  /\ d[p + 7] = "/" /\ IsWord(d[p + 8])
  /\ d[p + 9] = "/"

\* githubRE.test(uri)
githubRE_test(d) == \E p \in 1..Len(d) : GithubAt(d, p)

\* githubRE.exec(uri): the capture groups of the leftmost match
githubRE_exec(d) ==
  LET p == CHOOSE q \in 1..Len(d) : GithubAt(d, q) /\ \A r \in 1..(q - 1) : ~GithubAt(d, r)
  IN  [user |-> d[p + 2], repo |-> d[p + 4], branch |-> <<"/", d[p + 8]>>,
       file |-> SubSeq(d, p + 10, Len(d))]

\* uri.indexOf('#') is not -1
HasHash(d) == \E p \in 1..Len(d) : d[p] = "#"

\* Update.prototype.raw
raw(d) ==
  LET chunks == githubRE_exec(d)
  IN  <<"https://", "raw.github.com", "/", chunks.user, "/", chunks.repo, "/">>
        \o Tail(chunks.branch) \o <<"/">> \o chunks.file

\* the provider chosen by the three `if`s of testing
Provider(d) ==
  LET p1 == IF HasHash(d) THEN "selector" ELSE "none"
      p2 == IF githubRE_test(d) THEN "github" ELSE p1
  IN  IF p2 = "none" THEN "req" ELSE p2

\* ------------------------------------------------------------------ errors
None == [type |-> "undefined", msg |-> "", key |-> 0]
Error(m, k) == [type |-> "Error", msg |-> m, key |-> k]
\* err.forEach is defined (err is an array)
HasForEach(e) == e.type = "Array"

\* ------------------------------------------------------------ manifest text
\* JSON.parse(package.source)
JSON_parse(text) == text.bundle
\* JSON.stringify(code, null, 2)
JSON_stringify(code) == [fmt |-> "indent2", bundle |-> code]

VARIABLES
  path,          \* package.path is set
  source,        \* package.source
  manifestFile,  \* the file at package.location
  bundles,       \* package.bundle, in memory
  bundleFile,    \* the file at bundle.meta.location, per key
  exec,          \* position of execute
  next,          \* index of the next key of async.forEach
  pc,            \* position of each key's task
  invoked,       \* fetchers invoked per key, in order
  resolved,      \* version the fetcher called back with (Undefined: none yet)
  downloads,     \* uris passed to download by the orchestrator, per key
  dlOk,          \* the orchestrator's download answered 200 without error
  mutated,       \* done passed its error check and mutated memory
  mWrites,       \* writeFileSync calls on the manifest file, per key
  bWrites,       \* writeFileSync calls on the bundle file, per key
  err,           \* error handed to async's per-key callback
  completed,     \* async.forEach: completed counter
  cbNoop,        \* async.forEach: callback replaced by a no-op
  finishedArgs,  \* arguments finished was called with
  logged,        \* errors passed to the logger's error()
  call           \* a direct call of one method (req, version): input, position, result

vars == <<path, source, manifestFile, bundles, bundleFile, exec, next, pc,
          invoked, resolved, downloads, dlOk, mutated, mWrites, bWrites, err,
          completed, cbNoop, finishedArgs, logged, call>>

Terminal == {"skipped", "unchanged", "updated", "failed"}

\* no method is called directly: execute is what runs
NoCall == [op |-> "none"]

InitialContent == "old"
Bodies == {"", "new"}

Init ==
  /\ path \in BOOLEAN
  /\ \E lat \in [Keys -> Descriptors], dl \in [Keys -> BOOLEAN] :
       /\ bundles = [k \in Keys |-> [version |-> RecordedVersion, latest |-> lat[k],
                                     download |-> dl[k], content |-> InitialContent]]
       /\ source = [fmt |-> "orig",
                    bundle |-> [k \in Keys |-> [version |-> RecordedVersion,
                                                latest |-> lat[k], download |-> dl[k]]]]
  /\ manifestFile = source
  /\ bundleFile = [k \in Keys |-> InitialContent]
  /\ exec = "idle"
  /\ next = 1
  /\ pc = [k \in Keys |-> "pending"]
  /\ invoked = [k \in Keys |-> << >>]
  /\ resolved = [k \in Keys |-> Undefined]
  /\ downloads = [k \in Keys |-> << >>]
  /\ dlOk = [k \in Keys |-> FALSE]
  /\ mutated = [k \in Keys |-> FALSE]
  /\ mWrites = [k \in Keys |-> 0]
  /\ bWrites = [k \in Keys |-> 0]
  /\ err = [k \in Keys |-> None]
  /\ completed = 0
  /\ cbNoop = FALSE
  /\ finishedArgs = << >>
  /\ logged = << >>
  /\ call = NoCall

\* ---------------------------------------------------------------- helpers
\* execute without its edge-case check
NoPathIgnored == FALSE

\* edge case of execute: `if (!this.square.package.path) return;`
NoPath == ~path

\* test choosing the raw location by the download flag alone
UsesRawFlagOnly(b, provider) == b.download

\* test choosing the raw location only when the flag and the provider agree
UsesRawFlagAndProvider(b, provider) == b.download /\ provider = "github"

\* the download location chosen by test: bundle.download || provider === self.github
UsesRaw(b, provider) == b.download \/ provider = "github"

\* test without its `version === bundle.version` check
TestOutcomeNoEqualityCheck(k, e, version, content) ==
  IF e # None THEN "error"
  ELSE IF version = Undefined THEN "noversion"
  ELSE IF content # Undefined THEN "done"
  ELSE "download"

\* test with an error variable shared between the keys' closures
TestOutcomeSharedErr(k, e, version, content) ==
  IF e # None \/ \E i \in Keys : err[i] # None THEN "error"
  ELSE IF version = Undefined THEN "noversion"
  ELSE IF version = bundles[k].version THEN "unchanged"
  ELSE IF content # Undefined THEN "done"
  ELSE "download"

\* what test does with the fetcher's answer (err, version, content)
TestOutcome(k, e, version, content) ==
  IF e # None THEN "error"
  ELSE IF version = Undefined THEN "noversion"
  ELSE IF version = bundles[k].version THEN "unchanged"
  ELSE IF content # Undefined THEN "done"
  ELSE "download"

\* done starting from the manifest as it was loaded instead of package.source
SetVersionOfLoaded(text, k, version) ==
  JSON_stringify([j \in Keys |->
    [JSON_parse(text)[j] EXCEPT !.version = IF j = k THEN version ELSE RecordedVersion]])

\* done writing a fresh entry for the key instead of setting its version
SetVersionFreshEntry(text, k, version) ==
  JSON_stringify([JSON_parse(text) EXCEPT
    ![k] = [version |-> version, latest |-> NoLatest, download |-> FALSE]])

\* done: code = JSON.parse(source); code.bundle[key].version = version;
\* source = JSON.stringify(code, null, 2)
SetVersion(text, k, version) ==
  JSON_stringify([JSON_parse(text) EXCEPT ![k].version = version])

\* done without `bundle.version = version`
MutateContentOnly(b, version, content) == [b EXCEPT !.content = content]

\* done: bundle.version = version; bundle.content = content
Mutate(b, version, content) == [b EXCEPT !.version = version, !.content = content]

\* outcomes of the try block of done: both writes succeed, the first throws,
\* the second throws
WriteOutcomes == {"ok", "manifestThrows", "bundleThrows"}

\* the exception caught by the try block of done (None: nothing was thrown)
WriteError(k, w) ==
  IF w = "ok" THEN None
  ELSE IF w = "manifestThrows" THEN Error("manifest write", k)
  ELSE Error("bundle write", k)

\* finished: what it passes to the logger.  An Error has no forEach, so the
\* loop is skipped; for an array it would reach self.logger, which Update
\* never sets, and throw before error() is called.
finished_logs(e) ==
  IF e # None /\ HasForEach(e) THEN << >> ELSE << >>

\* async.forEach's per-key callback, and finished when it calls it
CallCb(k, e) ==
  /\ err' = [err EXCEPT ![k] = e]
  /\ IF e # None
       THEN /\ completed' = completed
            /\ cbNoop' = TRUE
            /\ finishedArgs' = IF cbNoop THEN finishedArgs ELSE Append(finishedArgs, e)
            /\ logged' = IF cbNoop THEN logged ELSE logged \o finished_logs(e)
       ELSE /\ completed' = completed + 1
            /\ cbNoop' = cbNoop
            /\ finishedArgs' = IF completed + 1 = NumKeys /\ ~cbNoop
                                 THEN Append(finishedArgs, None) ELSE finishedArgs
            /\ logged' = IF completed + 1 = NumKeys /\ ~cbNoop
                           THEN logged \o finished_logs(None) ELSE logged

\* done with the two writeFileSync calls swapped: the bundle file first
CallDoneBundleFirst(k, e, content, w) ==
  IF e # None
    THEN /\ pc' = [pc EXCEPT ![k] = "failed"]
         /\ CallCb(k, e)
         /\ UNCHANGED <<source, manifestFile, bundles, bundleFile, mutated, mWrites, bWrites>>
    ELSE LET text == SetVersion(source, k, resolved'[k])
         IN  /\ bundles' = [bundles EXCEPT ![k] = Mutate(bundles[k], resolved'[k], content)]
             /\ source' = text
             /\ mutated' = [mutated EXCEPT ![k] = TRUE]
             /\ bWrites' = [bWrites EXCEPT ![k] = @ + 1]
             /\ bundleFile' = [bundleFile EXCEPT ![k] = IF w = "bundleThrows" THEN @ ELSE content]
             /\ mWrites' = [mWrites EXCEPT ![k] = IF w = "bundleThrows" THEN @ ELSE @ + 1]
             /\ manifestFile' = IF w = "ok" THEN text ELSE manifestFile
             /\ pc' = [pc EXCEPT ![k] = IF w = "ok" THEN "updated" ELSE "failed"]
             /\ CallCb(k, WriteError(k, w))

\* done(err, content) of key k, with the outcome w of its try block
CallDone(k, e, content, w) ==
  IF e # None
    THEN /\ pc' = [pc EXCEPT ![k] = "failed"]
         /\ CallCb(k, e)
         /\ UNCHANGED <<source, manifestFile, bundles, bundleFile, mutated, mWrites, bWrites>>
    ELSE LET text == SetVersion(source, k, resolved'[k])
         IN  /\ bundles' = [bundles EXCEPT ![k] = Mutate(bundles[k], resolved'[k], content)]
             /\ source' = text
             /\ mutated' = [mutated EXCEPT ![k] = TRUE]
             /\ mWrites' = [mWrites EXCEPT ![k] = @ + 1]
             /\ manifestFile' = IF w = "manifestThrows" THEN manifestFile ELSE text
             /\ bWrites' = [bWrites EXCEPT ![k] = IF w = "manifestThrows" THEN @ ELSE @ + 1]
             /\ bundleFile' = [bundleFile EXCEPT ![k] = IF w = "ok" THEN content ELSE @]
             /\ pc' = [pc EXCEPT ![k] = IF w = "ok" THEN "updated" ELSE "failed"]
             /\ CallCb(k, WriteError(k, w))

\* test(err, version, content): the callback handed to the provider
CallTest(k, e, version, content, w) ==
  LET o == TestOutcome(k, e, version, content)
      b == bundles[k]
  IN  /\ resolved' = [resolved EXCEPT ![k] = IF e = None THEN version ELSE @]
      /\ CASE o = "error" ->
                /\ pc' = [pc EXCEPT ![k] = "failed"]
                /\ CallCb(k, e)
                /\ UNCHANGED <<source, manifestFile, bundles, bundleFile, mutated,
                               mWrites, bWrites, downloads>>
           [] o = "noversion" ->
                /\ pc' = [pc EXCEPT ![k] = "failed"]
                /\ CallCb(k, Error("unable to find and parse the version", k))
                /\ UNCHANGED <<source, manifestFile, bundles, bundleFile, mutated,
                               mWrites, bWrites, downloads>>
           [] o = "unchanged" ->
                /\ pc' = [pc EXCEPT ![k] = "unchanged"]
                /\ CallCb(k, None)
                /\ UNCHANGED <<source, manifestFile, bundles, bundleFile, mutated,
                               mWrites, bWrites, downloads>>
           [] o = "done" ->
                /\ CallDone(k, None, content, w)
                /\ UNCHANGED downloads
           [] o = "download" ->
                IF UsesRaw(b, Head(invoked[k])) /\ ~githubRE_test(b.latest)
                  THEN \* raw(): chunks is null, TypeError out of the callback
                       /\ pc' = [pc EXCEPT ![k] = "threw"]
                       /\ UNCHANGED <<source, manifestFile, bundles, bundleFile, mutated,
                                      mWrites, bWrites, downloads, err, completed,
                                      cbNoop, finishedArgs, logged>>
                  ELSE /\ downloads' = [downloads EXCEPT ![k] =
                            Append(@, IF UsesRaw(b, Head(invoked[k]))
                                        THEN raw(b.latest) ELSE b.latest)]
                       /\ pc' = [pc EXCEPT ![k] = "download"]
                       /\ UNCHANGED <<source, manifestFile, bundles, bundleFile, mutated,
                                      mWrites, bWrites, err, completed, cbNoop,
                                      finishedArgs, logged>>

\* callbacks are delivered while the process lives: when execute threw and its
\* caller did not catch the exception, the process is gone ("crashed").  The
\* lazy loader canihaz may call back before the loop of execute is over.
Alive == exec \notin {"idle", "crashed"}
\* network and API callbacks come from the event loop, after execute was left
LoopLeft == exec \in {"returned", "threw"}

\* ---------------------------------------------------------------- actions
\* execute up to async.forEach
Execute ==
  /\ exec = "idle"
  /\ exec' = IF NoPath THEN "returned" ELSE "looping"
  /\ UNCHANGED <<call, path, source, manifestFile, bundles, bundleFile, next, pc,
                 invoked, resolved, downloads, dlOk, mutated, mWrites, bWrites, err,
                 completed, cbNoop, finishedArgs, logged>>

\* one iteration of async.forEach: testing(key, cb)
Testing(k) ==
  /\ exec = "looping"
  /\ next = k
  /\ next' = k + 1
  /\ LET b == bundles[k]
         provider == Provider(b.latest)
     IN  IF b.latest = NoLatest
           THEN /\ pc' = [pc EXCEPT ![k] = "skipped"]
                /\ CallCb(k, None)
                /\ exec' = IF k = NumKeys THEN "returned" ELSE exec
                /\ UNCHANGED invoked
           ELSE /\ invoked' = [invoked EXCEPT ![k] = Append(@, provider)]
                /\ UNCHANGED <<err, completed, cbNoop, finishedArgs, logged>>
                /\ CASE provider = "selector" ->
                          /\ pc' = [pc EXCEPT ![k] = "cheerio"]
                          /\ exec' = IF k = NumKeys THEN "returned" ELSE exec
                     [] provider = "github" ->
                          /\ pc' = [pc EXCEPT ![k] = "lazyload"]
                          /\ exec' = IF k = NumKeys THEN "returned" ELSE exec
                     [] provider = "req" ->
                          \* provider is called without a receiver: in strict mode
                          \* `this.lines` throws a TypeError out of execute
                          /\ pc' = [pc EXCEPT ![k] = "threw"]
                          /\ \E caught \in BOOLEAN :
                               exec' = IF caught THEN "threw" ELSE "crashed"
  /\ UNCHANGED <<call, path, source, manifestFile, bundles, bundleFile, resolved,
                 downloads, dlOk, mutated, mWrites, bWrites>>

\* selector: the callback of canihaz.cheerio
LazyloadCheerio(k) ==
  /\ Alive
  /\ pc[k] = "cheerio"
  /\ \E ok \in BOOLEAN :
       IF ok
         THEN \* console.log(...); fn is never called
              /\ pc' = [pc EXCEPT ![k] = "hung"]
              /\ UNCHANGED <<source, manifestFile, bundles, bundleFile, resolved, downloads,
                             mutated, mWrites, bWrites, err, completed, cbNoop,
                             finishedArgs, logged>>
         ELSE CallTest(k, Error("lazyload", k), Undefined, Undefined, "ok")
  /\ UNCHANGED <<call, path, exec, next, invoked, dlOk>>

\* github: lazyload, the callback of canihaz.github
LazyloadGithub(k) ==
  /\ Alive
  /\ pc[k] = "lazyload"
  /\ \E ok \in BOOLEAN :
       IF ok
         THEN /\ pc' = [pc EXCEPT ![k] = "getCommits"]
              /\ UNCHANGED <<source, manifestFile, bundles, bundleFile, resolved, downloads,
                             mutated, mWrites, bWrites, err, completed, cbNoop,
                             finishedArgs, logged>>
         ELSE CallTest(k, Error("lazyload", k), Undefined, Undefined, "ok")
  /\ UNCHANGED <<call, path, exec, next, invoked, dlOk>>

\* github: getcommit, the callback of api.repos.getCommits
GetCommit(k) ==
  /\ LoopLeft
  /\ pc[k] = "getCommits"
  /\ \/ \E r \in {"err", "empty"} :
          IF r = "err"
            THEN CallTest(k, Error("getCommits", k), Undefined, Undefined, "ok")
            ELSE CallTest(k, Error("No commits in this repo", k), Undefined, Undefined, "ok")
     \/ \E sha \in Versions : CallTest(k, None, sha, Undefined, "ok")
  /\ UNCHANGED <<call, path, exec, next, invoked, dlOk>>

\* download: requested, the callback of request.get, for the download test started
Requested(k) ==
  /\ LoopLeft
  /\ pc[k] = "download"
  /\ UNCHANGED <<resolved, downloads>>
  /\ \E r \in {"err", "status"} \cup Bodies, w \in WriteOutcomes :
       CASE r = "err" -> /\ w = "ok"
                         /\ dlOk' = dlOk
                         /\ CallDone(k, Error("request", k), Undefined, w)
         [] r = "status" -> /\ w = "ok"
                            /\ dlOk' = dlOk
                            /\ CallDone(k, Error("Invalid status code", k), Undefined, w)
         [] OTHER -> /\ dlOk' = [dlOk EXCEPT ![k] = TRUE]
                     /\ CallDone(k, None, r, w)
  /\ UNCHANGED <<call, path, exec, next, invoked>>

Next ==
  \/ Execute
  \/ \E k \in Keys : Testing(k)
  \/ \E k \in Keys : LazyloadCheerio(k)
  \/ \E k \in Keys : LazyloadGithub(k)
  \/ \E k \in Keys : GetCommit(k)
  \/ \E k \in Keys : Requested(k)

Spec == Init /\ [][Next]_vars

\* ------------------------------------------------- text and the two patterns
\* Text given to version() and content given to req's callback are sequences
\* of characters.
Digit == {"0", "1", "2", "3", "4", "5", "6", "7", "8", "9"}
Letter == {"a", "b", "c", "d", "e", "f", "g", "h", "i", "j", "k", "l", "m", "n", "o", "p",
           "q", "r", "s", "t", "u", "v", "w", "x", "y", "z",
           "A", "B", "C", "D", "E", "F", "G", "H", "I", "J", "K", "L", "M", "N", "O", "P",
           "Q", "R", "S", "T", "U", "V", "W", "X", "Y", "Z"}
\* \s
Space == {" ", "\t", "\n", "\r"}
\* [v=]
VEq == {"v", "="}
\* [a-zA-Z-] and [a-zA-Z0-9-\.:], the first and the further characters of a tag
TagStart == Letter \cup {"-"}
TagRest == Letter \cup Digit \cup {"-", ".", ":"}

\* exec() found no match; a capture group that took no part in the match
Null == << >>
NoCapture == <<"undefined">>

\* end of a greedy repetition C* started at i: the first index not consumed
RECURSIVE RunEnd(_, _, _)
RunEnd(t, i, C) == IF i <= Len(t) /\ t[i] \in C THEN RunEnd(t, i + 1, C) ELSE i

\* \s*[v=]*\s* started at p.  What follows it in both patterns is a digit,
\* which none of the three repetitions consumes, so giving characters back
\* never turns a failure into a match: the greedy run decides.
PrefixEnd(t, p) == RunEnd(t, RunEnd(t, RunEnd(t, p, Space), VEq), Space)

\* semver matched with the patch cut to its first digit
StrictAtShortPatch(t, p) ==
  LET c == PrefixEnd(t, p)
      d == RunEnd(t, c, Digit)
      e == RunEnd(t, d + 1, Digit)
  IN  IF /\ d > c /\ d <= Len(t) /\ t[d] = "."
         /\ e > d + 1 /\ e <= Len(t) /\ t[e] = "."
         /\ e + 1 <= Len(t) /\ t[e + 1] \in Digit
        THEN <<SubSeq(t, c, d - 1), SubSeq(t, d + 1, e - 1), <<t[e + 1]>>>>
        ELSE Null

\* semver (the strict pattern) matched at p: groups 1-3, major, minor, patch.
\* The optional build and tag groups 4 and 5 follow the patch and are not
\* read by version().
StrictAt(t, p) ==
  LET c == PrefixEnd(t, p)
      d == RunEnd(t, c, Digit)
      e == RunEnd(t, d + 1, Digit)
      f == RunEnd(t, e + 1, Digit)
  IN  IF /\ d > c /\ d <= Len(t) /\ t[d] = "."
         /\ e > d + 1 /\ e <= Len(t) /\ t[e] = "."
         /\ f > e + 1
        THEN <<SubSeq(t, c, d - 1), SubSeq(t, d + 1, e - 1), SubSeq(t, e + 1, f - 1)>>
        ELSE Null

\* sillyver with the dot and the minor optional
LooseAtDotOptional(t, p) ==
  LET c == PrefixEnd(t, p)
  IN  IF c <= Len(t) /\ t[c] \in Digit
        THEN IF c + 2 <= Len(t) /\ t[c + 1] = "." /\ t[c + 2] \in Digit
               THEN <<<<t[c]>>, <<t[c + 2]>>, NoCapture>>
               ELSE <<<<t[c]>>, NoCapture, NoCapture>>
        ELSE Null

\* sillyver (the loose pattern) matched at p: group 1 one digit, group 2 one
\* digit and an optional dash or whitespace, group 3 the tag
LooseAt(t, p) ==
  LET c == PrefixEnd(t, p)
  IN  IF c + 2 <= Len(t) /\ t[c] \in Digit /\ t[c + 1] = "." /\ t[c + 2] \in Digit
        THEN LET m == IF c + 3 <= Len(t) /\ t[c + 3] \in ({"-"} \cup Space)
                        THEN c + 3 ELSE c + 2
                 g == m + 1
                 h == IF g <= Len(t) /\ t[g] \in TagStart
                        THEN RunEnd(t, g + 1, TagRest) ELSE g
             IN  <<<<t[c]>>, SubSeq(t, c + 2, m),
                   IF h > g THEN SubSeq(t, g, h - 1) ELSE NoCapture>>
        ELSE Null

\* regexp.exec(content) of the strict pattern without flags: the leftmost match
semver_exec(t) ==
  LET S == {p \in 1..Len(t) : StrictAt(t, p) # Null}
  IN  IF S = {} THEN Null
      ELSE StrictAt(t, CHOOSE p \in S : \A q \in S : p <= q)

\* regexp.exec(content) of the loose pattern without flags: the leftmost match
sillyver_exec(t) ==
  LET S == {p \in 1..Len(t) : LooseAt(t, p) # Null}
  IN  IF S = {} THEN Null
      ELSE LooseAt(t, CHOOSE p \in S : \A q \in S : p <= q)

\* String.prototype.trim
RECURSIVE Trim(_)
Trim(s) ==
  IF s = << >> THEN s
  ELSE IF Head(s) \in Space THEN Trim(Tail(s))
  ELSE IF s[Len(s)] \in Space THEN Trim(SubSeq(s, 1, Len(s) - 1))
  ELSE s

\* match[i] ? match[i].trim() : 0, as join() prints it
Component(g) == IF g = NoCapture \/ g = << >> THEN <<"0">> ELSE Trim(g)

\* the receiver of a call: the Update instance, or none (a bare call)
Instance == "Update"
NoReceiver == "undefined"
\* a TypeError thrown by the call; version() returning undefined
TypeError == <<"TypeError">>
Absent == << >>

\* Update.prototype.version called on receiver this
version(this, content) ==
  IF this = NoReceiver THEN TypeError  \* this.strict of undefined
  ELSE LET strict == semver_exec(content)
           loose == sillyver_exec(content)
           match == IF strict # Null THEN strict ELSE loose
       IN  IF match = Null THEN Absent
           ELSE Component(match[1]) \o <<".">> \o Component(match[2]) \o <<".">>
                  \o Component(match[3])

\* ------------------------------------------------------ req, called directly
\* this.lines as the constructor sets it
DefaultLines == 10
\* most lines of a content
MaxContentLines == 12

\* the orchestrator's variables, and their value while execute is not run
orchestrator == <<path, source, manifestFile, bundles, bundleFile, exec, next, pc,
                  invoked, resolved, downloads, dlOk, mutated, mWrites, bWrites, err,
                  completed, cbNoop, finishedArgs, logged>>

Quiet ==
  /\ path = FALSE
  /\ bundles = [k \in Keys |-> [version |-> RecordedVersion, latest |-> NoLatest,
                                download |-> FALSE, content |-> InitialContent]]
  /\ source = [fmt |-> "orig",
               bundle |-> [k \in Keys |-> [version |-> RecordedVersion,
                                           latest |-> NoLatest, download |-> FALSE]]]
  /\ manifestFile = source
  /\ bundleFile = [k \in Keys |-> InitialContent]
  /\ exec = "idle"
  /\ next = 1
  /\ pc = [k \in Keys |-> "pending"]
  /\ invoked = [k \in Keys |-> << >>]
  /\ resolved = [k \in Keys |-> Undefined]
  /\ downloads = [k \in Keys |-> << >>]
  /\ dlOk = [k \in Keys |-> FALSE]
  /\ mutated = [k \in Keys |-> FALSE]
  /\ mWrites = [k \in Keys |-> 0]
  /\ bWrites = [k \in Keys |-> 0]
  /\ err = [k \in Keys |-> None]
  /\ completed = 0
  /\ cbNoop = FALSE
  /\ finishedArgs = << >>
  /\ logged = << >>

\* a downloaded file of n lines joined by sep whose line k alone bears a version
VersionLine == <<"v", "1", ".", "2", ".", "3">>
PlainLine == <<"x">>
Separators == {<<"\n">>, <<"\r">>, <<"\r", "\n">>}
RECURSIVE ContentFrom(_, _, _, _)
ContentFrom(i, k, n, sep) ==
  IF i > n THEN << >>
  ELSE (IF i = k THEN VersionLine ELSE PlainLine)
         \o (IF i < n THEN sep ELSE << >>) \o ContentFrom(i + 1, k, n, sep)
ContentWith(k, n, sep) == ContentFrom(1, k, n, sep)

\* content.split(/(\r\n)|\r|\n/): the pieces between the separators and, after
\* each piece but the last, what the capture group took: "\r\n", or nothing
\* for a lone \r or \n
RECURSIVE SplitFrom(_, _, _, _)
SplitFrom(t, i, piece, out) ==
  IF i > Len(t) THEN Append(out, piece)
  ELSE IF t[i] = "\r" /\ i < Len(t) /\ t[i + 1] = "\n"
    THEN SplitFrom(t, i + 2, << >>, out \o <<piece, <<"\r", "\n">>>>)
  ELSE IF t[i] \in {"\r", "\n"}
    THEN SplitFrom(t, i + 1, << >>, out \o <<piece, NoCapture>>)
  ELSE SplitFrom(t, i + 1, Append(piece, t[i]), out)
Split(t) == SplitFrom(t, 1, << >>, << >>)

\* array.splice(0, count): the first count elements
Splice(a, count) == SubSeq(a, 1, IF count < Len(a) THEN count ELSE Len(a))

\* the value passed to fn when no element was scanned: the function itself
VersionFunction == <<"function">>

\* lines.some(someline) and the value `version` holds after it.  someline
\* calls `version(line)` without a receiver and assigns the result to the
\* variable that held the function, so a second call has no function to call.
SomeLine(lines) ==
  IF lines = << >> THEN VersionFunction
  ELSE LET v == version(NoReceiver, lines[1])
       IN  IF v = TypeError THEN TypeError
           ELSE IF v # Absent \/ Len(lines) = 1 THEN v
           ELSE TypeError

NoResult == [kind |-> "none"]
Thrown == [kind |-> "TypeError"]
Callback(e, v, content) == [kind |-> "callback", err |-> e, version |-> v, content |-> content]

\* downloading(err, content): the callback req hands to download
downloading(e, content, lines) ==
  IF e # None THEN Callback(e, Absent, << >>)
  ELSE IF content = << >> THEN Callback(Error("No content received", 0), Absent, << >>)
  ELSE LET v == SomeLine(Splice(Split(content), lines))
       IN  IF v = TypeError THEN Thrown ELSE Callback(None, v, content)

ReqInit ==
  /\ Quiet
  /\ \E n \in 1..MaxContentLines, lines \in {1, 2, DefaultLines, 15}, this \in {Instance, NoReceiver} :
       \E k \in 1..n, sep \in Separators :
         call = [op |-> "req", this |-> this, k |-> k, lines |-> lines,
                 content |-> ContentWith(k, n, sep), pc |-> "start",
                 answer |-> "none", result |-> NoResult]

\* req(uri, fn) up to this.download(uri, downloading)
ReqCall ==
  /\ call.op = "req" /\ call.pc = "start"
  /\ call' = IF call.this = NoReceiver
               THEN [call EXCEPT !.pc = "done", !.result = Thrown]  \* this.lines of undefined
               ELSE [call EXCEPT !.pc = "download"]
  /\ UNCHANGED orchestrator

\* requested and downloading: the answer of request.get reaches req's callback
ReqDownloading ==
  /\ call.op = "req" /\ call.pc = "download"
  /\ \E r \in {"err", "status", "empty", "body"} :
       LET e == CASE r = "err" -> Error("request", 0)
                  [] r = "status" -> Error("Invalid status code", 0)
                  [] OTHER -> None
           content == IF r = "body" THEN call.content ELSE << >>
       IN  call' = [call EXCEPT !.pc = "done", !.answer = r,
                                !.result = downloading(e, content, call.lines)]
  /\ UNCHANGED orchestrator

ReqNext == ReqCall \/ ReqDownloading

ReqSpec == ReqInit /\ [][ReqNext]_vars

\* -------------------------------------------------- version, called directly
\* longest text enumerated
MaxLen == 6
Alphabet == {"v", "1", "2", ".", "b", " "}

\* longer texts, as found in the heads of library files
SampleTexts ==
  { <<"v", "3", " ", "f", "i", "n", "a", "l">>,
    <<"1", ".", "2", ".", "3", " ", "v", "4", ".", "5", ".", "6">>,
    <<"s", "e", "e", " ", "v", "1", ".", "2", ".", "3", " ", "n", "o", "w">>,
    <<"v", "1", ".", "2", ".", "3", "4", " ", "x">>,
    <<"1", ".", "2", "-", "b", "e", "t", "a">>,
    <<"/", "*", " ", "l", "i", "b", " ", "1", ".", "4", " ", "*", "/">> }

NotReturned == <<"pending">>

VersionInit ==
  /\ Quiet
  /\ \E text \in SampleTexts \cup UNION {[1..n -> Alphabet] : n \in 0..MaxLen} :
       call = [op |-> "version", text |-> text, pc |-> "start", result |-> NotReturned]

\* update.version(text)
VersionCall ==
  /\ call.op = "version" /\ call.pc = "start"
  /\ call' = [call EXCEPT !.pc = "done", !.result = version(Instance, call.text)]
  /\ UNCHANGED orchestrator

VersionNext == VersionCall

VersionSpec == VersionInit /\ [][VersionNext]_vars

\* ------------------------------------------------------------------ claims
WriteMsgs == {"manifest write", "bundle write"}
OutOfDate(k) == resolved[k] \notin {Undefined, RecordedVersion}

\* C1 (as stated): a key whose resolved version equals its recorded version
\* causes no write, no download, no change and no error; a key whose version
\* differs and whose content was retrieved causes exactly one manifest write
\* and exactly one bundle-file write; no other key causes a write.
C1_Original ==
  \A k \in Keys :
    /\ resolved[k] = RecordedVersion =>
         /\ pc[k] = "unchanged" /\ err[k] = None
         /\ mWrites[k] = 0 /\ bWrites[k] = 0 /\ downloads[k] = << >>
         /\ bundles[k].version = RecordedVersion /\ bundles[k].content = InitialContent
         /\ source.bundle[k].version = RecordedVersion
         /\ bundleFile[k] = InitialContent
    /\ (mWrites[k] > 0 \/ bWrites[k] > 0) <=> (OutOfDate(k) /\ dlOk[k])
    /\ (OutOfDate(k) /\ dlOk[k]) => (mWrites[k] = 1 /\ bWrites[k] = 1)

\* C1 (amended): as above, but the key whose version differs causes exactly
\* one manifest write and, unless that write throws, exactly one bundle-file
\* write; when the manifest write throws the bundle file is not written.
C1_WritesIffOutOfDate ==
  \A k \in Keys :
    /\ resolved[k] = RecordedVersion =>
         /\ pc[k] = "unchanged" /\ err[k] = None
         /\ mWrites[k] = 0 /\ bWrites[k] = 0 /\ downloads[k] = << >>
         /\ bundles[k].version = RecordedVersion /\ bundles[k].content = InitialContent
         /\ source.bundle[k].version = RecordedVersion
         /\ bundleFile[k] = InitialContent
    /\ (mWrites[k] > 0 \/ bWrites[k] > 0) <=> (OutOfDate(k) /\ dlOk[k])
    /\ (OutOfDate(k) /\ dlOk[k]) =>
         /\ mWrites[k] = 1
         /\ bWrites[k] = IF err[k].msg = "manifest write" THEN 0 ELSE 1

C1_Witness ==
  \E i, j \in Keys :
    /\ pc[i] = "unchanged" /\ resolved[i] = RecordedVersion
    /\ pc[j] = "updated" /\ mWrites[j] = 1 /\ bWrites[j] = 1
    /\ mWrites[i] = 0

\* C2: a key that reached updated (done ran and no write threw) has the
\* resolved version in bundle.version, in package.source and in the manifest
\* file, and bundle.content equals the bundle file.
C2_UpdatedConsistent ==
  \A k \in Keys :
    pc[k] = "updated" =>
      /\ OutOfDate(k)
      /\ bundles[k].version = resolved[k]
      /\ source.bundle[k].version = resolved[k]
      /\ manifestFile.bundle[k].version = resolved[k]
      /\ bundles[k].content = bundleFile[k]

C2_Witness ==
  \E k, j \in Keys :
    /\ pc[k] = "updated" /\ bundleFile[k] = "new"
    /\ j # k /\ err[j].msg = "manifest write"

\* C3: a key fails only by an error of its own; after its fetch succeeded
\* with a differing version only its own download or write can fail it, its
\* download callback stays deliverable whatever state the other keys are in,
\* and once the download and the writes succeeded it is updated and persisted.
C3_FailuresIsolated ==
  \A j \in Keys :
    /\ pc[j] = "failed" => (err[j].type = "Error" /\ err[j].key = j)
    /\ (OutOfDate(j) /\ pc[j] = "failed") =>
         err[j].msg \in {"request", "Invalid status code"} \cup WriteMsgs
    /\ (OutOfDate(j) /\ pc[j] \notin {"failed", "updated"}) =>
         (pc[j] = "download" /\ ENABLED Requested(j))
    /\ (OutOfDate(j) /\ dlOk[j] /\ err[j].msg \notin WriteMsgs) =>
         /\ pc[j] = "updated"
         /\ manifestFile.bundle[j].version = resolved[j]
         /\ bundleFile[j] = bundles[j].content

C3_Witness ==
  \E i, j \in Keys :
    /\ i # j
    /\ pc[i] = "failed" /\ err[i].msg \in {"lazyload", "getCommits", "No commits in this repo"}
    /\ pc[j] = "updated" /\ err[j] = None
    /\ manifestFile.bundle[j].version = resolved[j]

Failed == {k \in Keys : pc[k] = "failed"}
IsLogged(e) == \E i \in 1..Len(logged) : logged[i] = e

\* C4: finished runs only after every key reached a terminal state (looked at
\* once the loop of execute is over), and once every key is terminal finished
\* has run and each failed key's error has been logged, one log entry per
\* failed key.
C4_Original ==
  /\ (finishedArgs # << >> /\ LoopLeft) => \A k \in Keys : pc[k] \in Terminal
  /\ (\A k \in Keys : pc[k] \in Terminal) =>
       /\ finishedArgs # << >>
       /\ \A k \in Failed : IsLogged(err[k])
       /\ Len(logged) = Cardinality(Failed)

\* C5: no key hangs.  When execute returned normally and no callback is
\* outstanding or can ever be delivered, every key is in a terminal state and
\* finished has been called.
C5_Original ==
  (path /\ exec = "returned" /\ ~ENABLED Next) =>
    /\ \A k \in Keys : pc[k] \in Terminal
    /\ finishedArgs # << >>

\* C6: without package.path execute returns at once: no key is dispatched, no
\* fetcher invoked, no download started, no file written, and package.source,
\* the files and every bundle entry keep their initial value.
C6_NoPathNoOp ==
  ~path =>
    /\ exec \in {"idle", "returned"}
    /\ \A k \in Keys :
         /\ pc[k] = "pending" /\ invoked[k] = << >> /\ downloads[k] = << >>
         /\ mWrites[k] = 0 /\ bWrites[k] = 0
         /\ bundles[k].version = RecordedVersion /\ bundles[k].content = InitialContent
         /\ bundleFile[k] = InitialContent
         /\ source.bundle[k].version = RecordedVersion
    /\ source.fmt = "orig" /\ manifestFile = source
    /\ completed = 0 /\ finishedArgs = << >> /\ logged = << >>

C6_Witness ==
  /\ ~path /\ exec = "returned"
  /\ \E k \in Keys : bundles[k].latest = GithubUrl

\* C7: every run of done leaves in package.source the resolved version of
\* every key done has run for so far, and when it ends without a write error
\* the manifest file equals package.source.
C7_NoLostUpdate ==
  [][\A k \in Keys :
       /\ (~mutated[k] /\ mutated'[k]) =>
            \A j \in Keys : mutated'[j] => source'.bundle[j].version = resolved'[j]
       /\ (pc[k] # "updated" /\ pc'[k] = "updated") =>
            /\ mutated'[k]
            /\ manifestFile' = source'
            /\ \A j \in Keys : mutated'[j] => manifestFile'.bundle[j].version = resolved'[j]]_vars

C7_Witness ==
  \E i, j \in Keys :
    /\ i # j
    /\ mutated[i] /\ err[i].msg = "manifest write"
    /\ pc[j] = "updated"
    /\ manifestFile = source
    /\ manifestFile.bundle[i].version = "sha-new"
    /\ manifestFile.bundle[j].version = "sha-new"

\* C8: a write that throws in done is caught and handed to the key's callback:
\* the key ends failed, memory keeps the new version, content and source, and
\* the error is reported through the logger.
C8_Original ==
  \A k \in Keys :
    err[k].msg \in WriteMsgs =>
      /\ pc[k] = "failed"
      /\ bundles[k].version = resolved[k] /\ OutOfDate(k)
      /\ bundles[k].content \in Bodies
      /\ source.bundle[k].version = resolved[k]
      /\ IsLogged(err[k])

\* C8, the part the code keeps: caught, delivered to the key's callback, and
\* nothing rolled back
C8_CaughtNotRolledBack ==
  \A k \in Keys :
    err[k].msg \in WriteMsgs =>
      /\ pc[k] = "failed" /\ mutated[k]
      /\ bundles[k].version = resolved[k] /\ OutOfDate(k)
      /\ bundles[k].content \in Bodies
      /\ source.bundle[k].version = resolved[k]

\* the fetcher by first match in the stated order: '#', GitHub blob shape, else
FirstMatch(d) ==
  IF HasHash(d) THEN "selector"
  ELSE IF githubRE_test(d) THEN "github"
  ELSE "req"

\* C9: at most one fetcher is invoked per key, none for an entry without
\* `latest` (which ends skipped), and the one invoked is the first match in
\* the order '#', GitHub blob shape, LineScanner.
C9_Original ==
  \A k \in Keys :
    /\ Len(invoked[k]) <= 1
    /\ bundles[k].latest = NoLatest => (invoked[k] = << >> /\ pc[k] \in {"pending", "skipped"})
    /\ (bundles[k].latest # NoLatest /\ pc[k] # "pending") =>
         invoked[k] = <<FirstMatch(bundles[k].latest)>>

C11_Original ==
  \A k \in Keys :
    /\ mutated[k] => bundles[k].content # ""
    /\ bundleFile[k] # ""

\* C12: req called on an Update instance, with a body whose first version is
\* on line k and a window of `lines` lines, calls back without error, with
\* that line's version and the content when k <= lines and with no version
\* when k > lines.
C12_Original ==
  (call.op = "req" /\ call.this = Instance /\ call.pc = "done" /\ call.answer = "body") =>
    call.result = Callback(None,
                           IF call.k <= call.lines THEN <<"1", ".", "2", ".", "3">> ELSE Absent,
                           call.content)

\* t[i..j] is a non-empty string of digits
AllDigits(t, i, j) == i <= j /\ j <= Len(t) /\ \A x \in i..j : t[x] \in Digit

\* t[a..d] is X.Y.Z, three digit strings with dots at b and c, Z at full length
Triple(t, a, b, c, d) ==
  /\ AllDigits(t, a, b - 1) /\ t[b] = "."
  /\ AllDigits(t, b + 1, c - 1) /\ t[c] = "."
  /\ AllDigits(t, c + 1, d)
  /\ (d = Len(t) \/ t[d + 1] \notin Digit)

TripleAt(t, a) ==
  \E b \in (a + 1)..Len(t) : \E c \in (b + 2)..Len(t) : \E d \in (c + 1)..Len(t) :
    Triple(t, a, b, c, d)

Dotted(t, a, b, c, d) ==
  SubSeq(t, a, b - 1) \o <<".">> \o SubSeq(t, b + 1, c - 1) \o <<".">> \o SubSeq(t, c + 1, d)

VersionDone == call.op = "version" /\ call.pc = "done"

\* C13 as stated: every vX.Y.Z in the text makes version return X.Y.Z,
\* whatever precedes it; without a digit-led version shape it returns absent.
C13_Original ==
  VersionDone =>
    LET t == call.text IN
    /\ \A a \in 2..Len(t) : (t[a - 1] = "v" /\ t[a] \in Digit) =>
         \A b \in (a + 1)..Len(t) : \A c \in (b + 2)..Len(t) : \A d \in (c + 1)..Len(t) :
           Triple(t, a, b, c, d) => call.result = Dotted(t, a, b, c, d)
    /\ (~ \E i \in 1..Len(t) : t[i] \in Digit) => call.result = Absent

\* C13: version(text) returns X.Y.Z of the leftmost substring X.Y.Z of three
\* dot-separated digit strings, so for a text with vX.Y.Z it returns that
\* X.Y.Z when no such triple starts earlier; it returns absent exactly when
\* the text has no digit, dot, digit in a row.
C13_FirstVersion ==
  VersionDone =>
    LET t == call.text IN
    /\ \A a \in 1..Len(t) : (t[a] \in Digit /\ ~ \E e \in 1..(a - 1) : TripleAt(t, e)) =>
         \A b \in (a + 1)..Len(t) : \A c \in (b + 2)..Len(t) : \A d \in (c + 1)..Len(t) :
           Triple(t, a, b, c, d) => call.result = Dotted(t, a, b, c, d)
    /\ call.result = Absent <=>
         ~ \E i \in 1..(Len(t) - 2) : t[i] \in Digit /\ t[i + 1] = "." /\ t[i + 2] \in Digit

\* a vX.Y.Z in the middle of a text was returned
C13_Witness ==
  /\ VersionDone
  /\ \E a \in 3..Len(call.text) :
       /\ call.text[a - 1] = "v" /\ TripleAt(call.text, a)
       /\ ~ \E e \in 1..(a - 1) : TripleAt(call.text, e)
       /\ Len(call.result) = 5 /\ call.result[1] = call.text[a]

\* C14: whenever the strict pattern does not match and the loose pattern
\* does, version returns major.minor.0: the third component is "0".
C14_Original ==
  (VersionDone /\ semver_exec(call.text) = Null /\ sillyver_exec(call.text) # Null) =>
    LET r == call.result IN
    /\ Len(r) >= 5
    /\ SubSeq(r, Len(r) - 1, Len(r)) = <<".", "0">>
    /\ Cardinality({i \in 1..Len(r) : r[i] = "."}) = 2

V3Final == <<"v", "3", " ", "f", "i", "n", "a", "l">>

\* C15 as stated: version('v3 final') returns "3.<minor>.0", not absent.
C15_Original ==
  (VersionDone /\ call.text = V3Final) =>
    LET r == call.result IN
    /\ Len(r) = 5
    /\ r[1] = "3" /\ r[2] = "." /\ r[3] \in Digit /\ r[4] = "." /\ r[5] = "0"

\* C15: the loose fallback needs a dot and a minor digit after the one-digit
\* major: version('v3 final') and every text without a dot return absent,
\* and 'v' digit '.' digit returns "<major>.<minor>.0".
C15_LooseNeedsDotMinor ==
  VersionDone =>
    LET t == call.text IN
    /\ t = V3Final => call.result = Absent
    /\ (~ \E i \in 1..Len(t) : t[i] = ".") => call.result = Absent
    /\ (Len(t) = 4 /\ t[1] = "v" /\ t[2] \in Digit /\ t[3] = "." /\ t[4] \in Digit) =>
         call.result = <<t[2], ".", t[4], ".", "0">>

\* version('v3 final') has returned
C15_Witness == VersionDone /\ call.text = V3Final /\ call.result = Absent

\* done ran for key k in this step
DoneRan(k) == mWrites'[k] # mWrites[k]

\* C16: an update of key K changes nothing in the manifest except K's
\* version: every step keeps the set of bundle keys of package.source and of
\* the manifest file, changes no field of them but the version, and that only
\* for keys whose update ran; in memory only the entry of the key being
\* updated changes, and only in version and content.
C16_UpdateFrame ==
  [][ /\ DOMAIN source'.bundle = Keys
      /\ DOMAIN manifestFile'.bundle = Keys
      /\ DOMAIN bundles' = Keys
      /\ \A k \in Keys :
           /\ source'.bundle[k] =
                [source.bundle[k] EXCEPT !.version = source'.bundle[k].version]
           /\ manifestFile'.bundle[k] =
                [manifestFile.bundle[k] EXCEPT !.version = manifestFile'.bundle[k].version]
           /\ bundles'[k] = [bundles[k] EXCEPT !.version = bundles'[k].version,
                                               !.content = bundles'[k].content]
           /\ ~DoneRan(k) => /\ source'.bundle[k] = source.bundle[k]
                             /\ bundles'[k] = bundles[k]
           /\ ~mutated'[k] => manifestFile'.bundle[k] = manifestFile.bundle[k]
    ]_vars

\* one key was updated and written while another key was left alone
C16_Witness ==
  \E k, j \in Keys :
    /\ k # j
    /\ pc[k] = "updated" /\ manifestFile.bundle[k].version # RecordedVersion
    /\ bundles[k].latest = GithubUrl /\ manifestFile.bundle[k].latest = GithubUrl
    /\ pc[j] \in Terminal /\ manifestFile.bundle[j].version = RecordedVersion
    /\ bundles[j].content = InitialContent

\* the manifest file records a new version for k
ManifestNew(k) == manifestFile.bundle[k].version # RecordedVersion

\* C17: the manifest file is written before the bundle file and a throwing
\* manifest write skips the bundle-file write, so a bundle file with new
\* content implies that the manifest file records the key's new version.
\* The manifest file records a new version over an old bundle file exactly
\* when the key's bundle-file write threw, or its manifest write threw and
\* another key's update wrote the re-serialised package.source afterwards.
C17_ManifestBeforeBundle ==
  /\ [](\A k \in Keys :
          /\ bundleFile[k] # InitialContent =>
               /\ ManifestNew(k) /\ manifestFile.bundle[k].version = resolved[k]
               /\ mWrites[k] = 1 /\ bWrites[k] = 1
          /\ (mWrites[k] = 1 /\ bWrites[k] = 0) =>
               /\ err[k].msg = "manifest write" /\ bundleFile[k] = InitialContent
          /\ err[k].msg = "bundle write" => ManifestNew(k) /\ bundleFile[k] = InitialContent
          /\ (ManifestNew(k) /\ bundleFile[k] = InitialContent) =>
               \/ err[k].msg = "bundle write"
               \/ /\ err[k].msg = "manifest write"
                  /\ \E j \in Keys \ {k} : bWrites[j] = 1)
  /\ [][\A k \in Keys :
          (~ManifestNew(k) /\ ManifestNew(k)' /\ bundleFile'[k] = InitialContent) =>
            \/ DoneRan(k) /\ err'[k].msg = "bundle write"
            \/ /\ err[k].msg = "manifest write"
               /\ \E j \in Keys \ {k} : DoneRan(j) /\ bWrites'[j] = 1
       ]_vars
  /\ [][\A k, j \in Keys :
          (k # j /\ err[k].msg = "manifest write" /\ DoneRan(j) /\ bWrites'[j] = 1) =>
            ManifestNew(k)' /\ bundleFile'[k] = InitialContent
       ]_vars

\* one key's manifest write threw, a later key's update wrote both files
C17_Witness ==
  \E k, j \in Keys :
    /\ k # j
    /\ err[k].msg = "manifest write" /\ ManifestNew(k) /\ bundleFile[k] = InitialContent
    /\ bundleFile[j] = "new" /\ ManifestNew(j) /\ pc[j] = "updated"

Flagged(b, f) == [b EXCEPT !.download = f]

\* C18: the download flag never influences a run.  The fetcher is chosen from
\* `latest` alone; wherever test chooses the download location both values of
\* the flag give the same choice, because only the GitHub commit lookup ever
\* reaches that choice; every download is from the raw URL of a GitHub blob
\* descriptor, and raw() is never applied to any other descriptor.
C18_FlagIgnored ==
  /\ [](\A k \in Keys :
          /\ invoked[k] # << >> => invoked[k] = <<Provider(bundles[k].latest)>>
          /\ pc[k] = "threw" => invoked[k] = <<"req">>
          /\ downloads[k] # << >> =>
               /\ invoked[k] = <<"github">>
               /\ githubRE_test(bundles[k].latest)
               /\ downloads[k] = <<raw(bundles[k].latest)>>)
  /\ [][\A k \in Keys :
          (downloads'[k] # downloads[k] \/ (pc'[k] = "threw" /\ pc[k] \notin {"pending", "threw"})) =>
            /\ UsesRaw(Flagged(bundles[k], TRUE), Head(invoked[k]))
                 = UsesRaw(Flagged(bundles[k], FALSE), Head(invoked[k]))
            /\ UsesRaw(bundles[k], Head(invoked[k])) => githubRE_test(bundles[k].latest)
       ]_vars

\* two GitHub keys that differ in the flag were both downloaded from their raw URL
C18_Witness ==
  \E k, j \in Keys :
    /\ bundles[k].download /\ ~bundles[j].download
    /\ bundles[k].latest = bundles[j].latest
    /\ downloads[k] # << >> /\ downloads[k] = downloads[j]
    /\ pc[k] = "updated" /\ pc[j] = "updated"

\* C19: a fetcher never throws synchronously out of the per-key task:
\* dispatching a key never aborts the iteration, so every key of the manifest
\* is dispatched.
C19_Original ==
  /\ exec \notin {"threw", "crashed"}
  /\ \A k \in Keys : pc[k] # "threw"
  /\ (exec # "looping" /\ exec # "idle" /\ ~NoPath) => \A k \in Keys : pc[k] # "pending"

====
